---- MODULE Spec2Model ----
(***************************************************************************)
(* Model of the arithmetic quiz game of src/app.py and src/models.py: the  *)
(* question generator, the per-player Flask session, the request handlers *)
(* start_game, submit_answer, end_game and get_leaderboard, and the        *)
(* GameResult table.                                                       *)
(*                                                                         *)
(* Time is counted in ticks, TicksPerSecond ticks to the second, so that   *)
(* the half of the hard tier's 15 s limit (7.5 s) is a whole number of     *)
(* ticks.  A handler runs in far less than a tick: its readings of         *)
(* datetime.now() are one value, now'.                                     *)
(***************************************************************************)
EXTENDS Integers, Sequences, FiniteSets, TLC

VARIABLES
    session,    \* the Flask session of the player: a dict, key -> value
    db,         \* the game_result table: the rows in insertion order
    now,        \* the last reading of datetime.now(), in ticks
    request,    \* the last request received: route and JSON body
    response,   \* the response to it
    debug,      \* whether exceptions propagate (app.run(debug=True)) or
                \* Flask answers 500 and still saves the session
    history     \* what has happened: the /start_game requests received,
                \* and the rows stored since the last of them

vars == <<session, db, now, request, response, debug, history>>

----------------------------------------------------------------------------
(* Bounds of the model *)

\* ticks per second of the model's clock
TicksPerSecond == 2
\* the clock stops after MaxSeconds seconds: four requests at the shortest
\* delay
MaxSeconds == 24
MaxTime == MaxSeconds * TicksPerSecond
\* answers counted in one game
MaxQuestions == 2
\* rows of the game_result table
MaxResults == 2
\* random.randint(a, b) is sampled in its DrawSpan smallest values
DrawSpan == 1
\* the generator alone is sampled in the GenSpan smallest values of every
\* random.randint(a, b): with 100 or more, in all of them
GenSpan == 100
\* rows of a game_result table that is only read
MaxBoardRows == 11

\* the delays between two requests that read the clock, in half seconds:
\* 6 s (an early answer in every tier), 7.5 s (half the hard tier's limit),
\* 12 s (early in the easy tier only) and 15.5 s (past the hard tier's
\* limit and past the half of every limit)
HalfSeconds == {12, 15, 24, 31}
Delays == {(h * TicksPerSecond) \div 2 : h \in HalfSeconds}

\* a handler that returns before it reads the clock: the delay of the
\* request plays no part, and the request is taken at one delay only
NoClock(dt) == dt = CHOOSE d \in Delays : \A e \in Delays : d <= e

----------------------------------------------------------------------------
(* Python values *)

Min(a, b) == IF a < b THEN a ELSE b
Max(a, b) == IF a > b THEN a ELSE b

\* a dict with no key
EmptyDict == [k \in {} |-> 0]

\* d[key] = value on a dict
SetItem(d, key, value) == (key :> value) @@ d

\* key in d
Has(d, key) == key \in DOMAIN d

\* JSON values of the request bodies
JsonNull == [type |-> "null", v |-> 0]
JsonInt(n) == [type |-> "int", v |-> n]
JsonStr(s) == [type |-> "str", v |-> s]
\* the float halves / 2
JsonFloat(halves) == [type |-> "float", v |-> halves]
JsonInf == [type |-> "inf", v |-> 0]
JsonNaN == [type |-> "nan", v |-> 0]

\* d.get(key): None when the key is missing
Get(d, key) == IF Has(d, key) THEN d[key] ELSE JsonNull

\* d.get(key, default)
GetDefault(d, key, default) == IF Has(d, key) THEN d[key] ELSE default

DigitChars == <<"0", "1", "2", "3", "4", "5", "6", "7", "8", "9">>

DigitValue(c) == (CHOOSE i \in 1..10 : DigitChars[i] = c) - 1

IsDigit(c) == \E i \in 1..10 : DigitChars[i] = c

\* str(n) of an integer n >= 0
RECURSIVE IntToStr(_)
IntToStr(n) ==
    IF n < 10 THEN <<DigitChars[n + 1]>>
    ELSE IntToStr(n \div 10) \o <<DigitChars[(n % 10) + 1]>>

\* the value of a string of digits
RECURSIVE DigitsValue(_)
DigitsValue(s) ==
    IF Len(s) = 0 THEN 0
    ELSE 10 * DigitsValue(SubSeq(s, 1, Len(s) - 1)) + DigitValue(s[Len(s)])

\* s.strip() of spaces
RECURSIVE Strip(_)
Strip(s) ==
    IF Len(s) > 0 /\ s[1] = " " THEN Strip(Tail(s))
    ELSE IF Len(s) > 0 /\ s[Len(s)] = " " THEN Strip(SubSeq(s, 1, Len(s) - 1))
    ELSE s

PyOk(n) == [raises |-> "", value |-> n]
PyRaise(e) == [raises |-> e, value |-> 0]

\* int(s) of a string: spaces around, a sign, then digits only
IntOfStr(s) ==
    LET t == Strip(s)
        signed == Len(t) > 0 /\ t[1] \in {"-", "+"}
        digits == IF signed THEN Tail(t) ELSE t
    IN  IF Len(digits) = 0 \/ \E i \in 1..Len(digits) : ~IsDigit(digits[i])
        THEN PyRaise("ValueError")
        ELSE IF signed /\ t[1] = "-" THEN PyOk(0 - DigitsValue(digits))
        ELSE PyOk(DigitsValue(digits))

\* int(x) of a JSON value
PyInt(x) ==
    CASE x.type = "int" -> PyOk(x.v)
      [] x.type = "str" -> IntOfStr(x.v)
      [] x.type = "float" ->
            \* truncation towards zero
            PyOk(IF x.v >= 0 THEN x.v \div 2 ELSE 0 - ((0 - x.v) \div 2))
      [] x.type = "inf" -> PyRaise("OverflowError")
      [] x.type = "nan" -> PyRaise("ValueError")
      [] OTHER -> PyRaise("TypeError")

----------------------------------------------------------------------------
(* The question generator *)

\* DIFFICULTY_SETTINGS with the division allowed in the easy tier, where
\* its divisor has the empty range 2..1
DIFFICULTY_SETTINGS_EasyDivides ==
    [easy   |-> [max_number |-> 10,  operations |-> <<"+", "-", "/">>,
                 time_limit |-> 30],
     medium |-> [max_number |-> 50,  operations |-> <<"+", "-", "*">>,
                 time_limit |-> 20],
     hard   |-> [max_number |-> 100, operations |-> <<"+", "-", "*", "/">>,
                 time_limit |-> 15]]

DIFFICULTY_SETTINGS ==
    [easy   |-> [max_number |-> 10,  operations |-> <<"+", "-">>,
                 time_limit |-> 30],
     medium |-> [max_number |-> 50,  operations |-> <<"+", "-", "*">>,
                 time_limit |-> 20],
     hard   |-> [max_number |-> 100, operations |-> <<"+", "-", "*", "/">>,
                 time_limit |-> 15]]

\* the values random.randint(a, b) is let to draw: the span smallest of
\* a..b (all of a..b for a span of b - a + 1 or more)
randint(a, b, span) == {x \in a..b : x - a < span}

\* f"{num1} {glyph} {num2}"
QuestionText(num1, glyph, num2) ==
    IntToStr(num1) \o <<" ", glyph, " ">> \o IntToStr(num2)

\* Question with the time limit of the easy tier, whatever the settings
Question_EasyLimit(text, answer, settings) ==
    [question |-> text, answer |-> answer,
     time_limit |-> DIFFICULTY_SETTINGS["easy"].time_limit]

\* the dict generate_question returns
Question(text, answer, settings) ==
    [question |-> text, answer |-> answer, time_limit |-> settings.time_limit]

\* QuestionsOf with the second operand of a subtraction drawn from
\* 1..max_number, not from 1..num1
QuestionsOf_Unordered(operation, settings, span) ==
    LET max_number == settings.max_number
        small == Min(max_number \div 5, 12)
    IN  CASE operation = "+" ->
               {Question(QuestionText(num1, "+", num2), num1 + num2, settings) :
                   num1 \in randint(1, max_number, span),
                   num2 \in randint(1, max_number, span)}
          [] operation = "-" ->
               UNION {{Question(QuestionText(num1, "-", num2), num1 - num2,
                                settings) :
                          num2 \in randint(1, max_number, span)} :
                      num1 \in randint(1, max_number, span)}
          [] operation = "*" ->
               {Question(QuestionText(num1, "×", num2), num1 * num2, settings) :
                   num1 \in randint(1, small, span),
                   num2 \in randint(1, small, span)}
          [] operation = "/" ->
               UNION {{Question(QuestionText(answer * num2, "÷", num2), answer,
                                settings) :
                          num2 \in randint(2, Min(max_number \div 10, 10), span)} :
                      answer \in randint(1, small, span)}

\* the questions generate_question draws for one operation
QuestionsOf(operation, settings, span) ==
    LET max_number == settings.max_number
        small == Min(max_number \div 5, 12)
    IN  CASE operation = "+" ->
               {Question(QuestionText(num1, "+", num2), num1 + num2, settings) :
                   num1 \in randint(1, max_number, span),
                   num2 \in randint(1, max_number, span)}
          [] operation = "-" ->
               UNION {{Question(QuestionText(num1, "-", num2), num1 - num2,
                                settings) :
                          num2 \in randint(1, num1, span)} :
                      num1 \in randint(1, max_number, span)}
          [] operation = "*" ->
               {Question(QuestionText(num1, "×", num2), num1 * num2, settings) :
                   num1 \in randint(1, small, span),
                   num2 \in randint(1, small, span)}
          [] operation = "/" ->
               UNION {{Question(QuestionText(answer * num2, "÷", num2), answer,
                                settings) :
                          num2 \in randint(2, Min(max_number \div 10, 10), span)} :
                      answer \in randint(1, small, span)}

\* generate_question(difficulty): every question it can return, for a
\* difficulty that is a key of DIFFICULTY_SETTINGS
generate_question(difficulty, span) ==
    LET settings == DIFFICULTY_SETTINGS[difficulty]
    IN  UNION {QuestionsOf(settings.operations[i], settings, span) :
                  i \in DOMAIN settings.operations}

\* DIFFICULTY_SETTINGS[difficulty] raises KeyError
KeyError(difficulty) == difficulty \notin DOMAIN DIFFICULTY_SETTINGS

----------------------------------------------------------------------------
(* The session and the responses *)

\* GameActive testing the key, not its value: 'game_active' in session
GameActive_KeyOnly(s) == Has(s, "game_active")

\* session.get('game_active') is truthy
GameActive(s) == Has(s, "game_active") /\ s["game_active"]

\* session.get('current_question') is truthy: a question is stored
HasQuestion(s) == Has(s, "current_question")

\* jsonify({'success': False, 'error': message})
Failure(message) == [success |-> FALSE, error |-> message]

\* an exception no handler catches: the request ends in a 500
ServerError(exception) == [status |-> 500, exception |-> exception]

\* the session Flask keeps after a handler that raised having written
\* `written`: with debug the exception propagates and no cookie is set
AfterRaise(written) == IF debug THEN session ELSE written

Request(route, data) == [route |-> route, json |-> data]

----------------------------------------------------------------------------
(* start_game *)

\* StartSession without session['score'] = 0: the score of the game
\* before carries over
StartSession_KeepScore(difficulty, t) ==
    SetItem(SetItem(SetItem(SetItem(SetItem(SetItem(session,
        "game_active", TRUE),
        "difficulty", difficulty),
        "score", IF Has(session, "score") THEN session["score"] ELSE 0),
        "total_questions", 0),
        "correct_answers", 0),
        "start_time", t)

StartSession(difficulty, t) ==
    SetItem(SetItem(SetItem(SetItem(SetItem(SetItem(session,
        "game_active", TRUE),
        "difficulty", difficulty),
        "score", 0),
        "total_questions", 0),
        "correct_answers", 0),
        "start_time", t)

start_game(data, dt) ==
    LET difficulty == GetDefault(data, "difficulty", "easy")
        t == now + dt
        started == StartSession(difficulty, t)
    IN  /\ t <= MaxTime
        /\ request' = Request("/start_game", data)
        /\ now' = t
        /\ db' = db
        /\ IF KeyError(difficulty)
           THEN /\ session' = AfterRaise(started)
                /\ response' = ServerError("KeyError")
           ELSE \E question_data \in generate_question(difficulty, DrawSpan) :
                /\ session' = SetItem(SetItem(started,
                                  "current_question", question_data),
                                  "question_start_time", t)
                /\ response' = [success |-> TRUE,
                                question |-> question_data.question,
                                time_limit |-> question_data.time_limit]

----------------------------------------------------------------------------
(* submit_answer *)

\* user_answer after the try/except of int(user_answer): the integer, None
\* for the exceptions caught, or the exception that escapes
ParseAnswer(raw) ==
    LET r == PyInt(raw)
    IN  IF r.raises \in {"ValueError", "TypeError"}
        THEN [raises |-> "", none |-> TRUE, value |-> 0]
        ELSE [raises |-> r.raises, none |-> FALSE, value |-> r.value]

\* user_answer == correct_answer
IsCorrect(user_answer, correct_answer) ==
    ~user_answer.none /\ user_answer.value = correct_answer

\* FastAnswer with <= for <
FastAnswer_Inclusive(time_taken, time_limit) ==
    2 * time_taken <= time_limit * TicksPerSecond

\* time_taken < time_limit / 2, time_taken in ticks
FastAnswer(time_taken, time_limit) ==
    2 * time_taken < time_limit * TicksPerSecond

\* int(x) of the float num / TicksPerSecond: towards zero
IntOfTicks(num) ==
    IF num >= 0 THEN num \div TicksPerSecond
    ELSE 0 - ((0 - num) \div TicksPerSecond)

\* BonusPoints counted down from 11, not from 10
BonusPoints_FromEleven(time_taken) ==
    Max(1, IntOfTicks(11 * TicksPerSecond - time_taken))

\* max(1, int(10 - time_taken)), time_taken in ticks
BonusPoints(time_taken) ==
    Max(1, IntOfTicks(10 * TicksPerSecond - time_taken))

\* Scored with a wrong answer costing 5 points
Scored_Penalty(s, is_correct, time_taken) ==
    LET counted == [s EXCEPT !["total_questions"] = @ + 1]
        credited == IF is_correct
                    THEN [counted EXCEPT !["correct_answers"] = @ + 1,
                                         !["score"] = @ + 10]
                    ELSE [counted EXCEPT !["score"] = @ - 5]
    IN  IF is_correct /\ FastAnswer(time_taken, s["current_question"].time_limit)
        THEN [credited EXCEPT !["score"] = @ + BonusPoints(time_taken)]
        ELSE credited

\* Scored with one point more for every row of the game_result table
Scored_ByStore(s, is_correct, time_taken) ==
    LET counted == [s EXCEPT !["total_questions"] = @ + 1]
        credited == IF is_correct
                    THEN [counted EXCEPT !["correct_answers"] = @ + 1,
                                         !["score"] = @ + 10 + Len(db)]
                    ELSE counted
    IN  IF is_correct /\ FastAnswer(time_taken, s["current_question"].time_limit)
        THEN [credited EXCEPT !["score"] = @ + BonusPoints(time_taken)]
        ELSE credited

\* the session after the statistics and the bonus are written
Scored(s, is_correct, time_taken) ==
    LET counted == [s EXCEPT !["total_questions"] = @ + 1]
        credited == IF is_correct
                    THEN [counted EXCEPT !["correct_answers"] = @ + 1,
                                         !["score"] = @ + 10]
                    ELSE counted
    IN  IF is_correct /\ FastAnswer(time_taken, s["current_question"].time_limit)
        THEN [credited EXCEPT !["score"] = @ + BonusPoints(time_taken)]
        ELSE credited

\* Advance without session['question_start_time'] = now
Advance_KeepClock(s, next_question, t) ==
    [s EXCEPT !["current_question"] = next_question]

\* the session with the next question stored and its clock started
Advance(s, next_question, t) ==
    [s EXCEPT !["current_question"] = next_question,
              !["question_start_time"] = t]

submit_answer(data, dt) ==
    /\ request' = Request("/submit_answer", data)
    /\ db' = db
    /\ IF ~GameActive(session)
       THEN /\ NoClock(dt)
            /\ response' = Failure("Nenhum jogo ativo")
            /\ UNCHANGED <<session, now>>
       ELSE IF ~HasQuestion(session)
       THEN /\ NoClock(dt)
            /\ response' = Failure("Nenhuma pergunta atual")
            /\ UNCHANGED <<session, now>>
       ELSE LET user_answer == ParseAnswer(Get(data, "answer"))
                current_question == session["current_question"]
                correct_answer == current_question.answer
                is_correct == IsCorrect(user_answer, correct_answer)
                t == now + dt
                time_taken == t - session["question_start_time"]
                scored == Scored(session, is_correct, time_taken)
            IN  IF user_answer.raises # ""
                THEN /\ NoClock(dt)
                     /\ response' = ServerError(user_answer.raises)
                     /\ UNCHANGED <<session, now>>
                ELSE /\ t <= MaxTime
                     /\ session["total_questions"] < MaxQuestions
                     /\ now' = t
                     /\ IF KeyError(session["difficulty"])
                        THEN /\ session' = AfterRaise(scored)
                             /\ response' = ServerError("KeyError")
                        ELSE \E next_question \in
                                 generate_question(session["difficulty"], DrawSpan) :
                             /\ session' = Advance(scored, next_question, t)
                             /\ response' =
                                   [success |-> TRUE,
                                    is_correct |-> is_correct,
                                    correct_answer |-> correct_answer,
                                    score |-> scored["score"],
                                    next_question |-> next_question.question,
                                    time_limit |-> next_question.time_limit,
                                    total_questions |-> scored["total_questions"],
                                    correct_answers |-> scored["correct_answers"]]

----------------------------------------------------------------------------
(* end_game and the game_result table *)

\* a Python float that is the fraction num / den
Float(num, den) == [num |-> num, den |-> den]

\* Accuracy without the * 100: a ratio, not a percentage
Accuracy_Ratio(correct_answers, total_questions) ==
    IF total_questions > 0
    THEN Float(correct_answers, total_questions)
    ELSE Float(0, 1)

\* (correct_answers / total_questions * 100) if total_questions > 0 else 0
Accuracy(correct_answers, total_questions) ==
    IF total_questions > 0
    THEN Float(correct_answers * 100, total_questions)
    ELSE Float(0, 1)

\* round(x, 1) of a float x >= 0, in tenths: to the nearest, a tie to the
\* even tenth
Round1(x) ==
    LET scaled == 10 * x.num
        low == scaled \div x.den
        rest == 2 * (scaled % x.den)
    IN  IF rest > x.den \/ (rest = x.den /\ low % 2 = 1) THEN low + 1 ELSE low

\* GameResult with the score taken from correct_answers
GameResult_WrongScore(s, accuracy, game_duration) ==
    [difficulty |-> s["difficulty"],
     score |-> s["correct_answers"],
     total_questions |-> s["total_questions"],
     correct_answers |-> s["correct_answers"],
     accuracy |-> accuracy,
     duration |-> game_duration]

\* the row models.GameResult() that end_game fills in
GameResult(s, accuracy, game_duration) ==
    [difficulty |-> s["difficulty"],
     score |-> s["score"],
     total_questions |-> s["total_questions"],
     correct_answers |-> s["correct_answers"],
     accuracy |-> accuracy,
     duration |-> game_duration]

\* Commit that keeps one row: the new row takes the place of the last
Commit_Overwrite(table, game_result, t) ==
    IF Len(table) = 0
    THEN Append(table, game_result @@ [created_at |-> t])
    ELSE [table EXCEPT ![Len(table)] = game_result @@ [created_at |-> t]]

\* db.session.add(game_result); db.session.commit(): the row is inserted
\* after the rows of the table, its created_at the default datetime.now
Commit(table, game_result, t) ==
    Append(table, game_result @@ [created_at |-> t])

\* Deactivated that leaves the session as it is: the game stays active
Deactivated_StaysActive(s) == s

\* session['game_active'] = False
Deactivated(s) == [s EXCEPT !["game_active"] = FALSE]

end_game(dt) ==
    /\ request' = Request("/end_game", EmptyDict)
    /\ IF ~GameActive(session)
       THEN /\ NoClock(dt)
            /\ response' = Failure("Nenhum jogo ativo")
            /\ UNCHANGED <<session, db, now>>
       ELSE LET t == now + dt
                game_duration == Float(t - session["start_time"], TicksPerSecond)
                accuracy == Accuracy(session["correct_answers"],
                                     session["total_questions"])
            IN  /\ t <= MaxTime
                /\ Len(db) < MaxResults
                /\ now' = t
                /\ db' = Commit(db, GameResult(session, accuracy, game_duration), t)
                /\ session' = Deactivated(session)
                /\ response' =
                      [success |-> TRUE,
                       final_stats |->
                          [score |-> session["score"],
                           total_questions |-> session["total_questions"],
                           correct_answers |-> session["correct_answers"],
                           accuracy |-> Round1(accuracy),
                           duration |-> Round1(game_duration),
                           difficulty |-> session["difficulty"]]]

----------------------------------------------------------------------------
(* get_leaderboard *)

\* .limit(10)
LeaderboardLimit == 10

\* Highest with the order turned round: the rows that outscore no row
Highest_Lowest(rows) ==
    {rows[i] : i \in {i \in DOMAIN rows :
                         \A j \in DOMAIN rows : rows[j].score >= rows[i].score}}

\* the rows no row of the table outscores
Highest(rows) ==
    {rows[i] : i \in {i \in DOMAIN rows :
                         \A j \in DOMAIN rows : rows[j].score <= rows[i].score}}

\* the table without the first of its rows equal to result
RemoveOne(rows, result) ==
    LET i == CHOOSE i \in DOMAIN rows :
                 rows[i] = result /\ \A j \in 1..(i - 1) : rows[j] # result
    IN  SubSeq(rows, 1, i - 1) \o SubSeq(rows, i + 1, Len(rows))

\* query.order_by(score.desc()).limit(limit).all(): every list the query
\* may return, rows of equal score coming in any order
RECURSIVE TopScores(_, _)
TopScores(rows, limit) ==
    IF limit = 0 \/ Len(rows) = 0 THEN {<<>>}
    ELSE UNION {{<<result>> \o rest :
                    rest \in TopScores(RemoveOne(rows, result), limit - 1)} :
                result \in Highest(rows)}

\* created_at.strftime('%Y-%m-%d'): the day of a time, counted from the
\* day of tick 0
Date(t) == t \div (86400 * TicksPerSecond)

\* the entry of the leaderboard made of a row
LeaderboardEntry(result) ==
    [score |-> result.score,
     difficulty |-> result.difficulty,
     accuracy |-> Round1(result.accuracy),
     date |-> Date(result.created_at)]

get_leaderboard ==
    /\ request' = Request("/get_leaderboard", EmptyDict)
    /\ \E top_scores \in TopScores(db, LeaderboardLimit) :
          response' = [leaderboard |->
                          [i \in DOMAIN top_scores |->
                              LeaderboardEntry(top_scores[i])]]
    /\ UNCHANGED <<session, db, now>>

----------------------------------------------------------------------------
(* The requests of a player *)

\* the difficulties a client names: two of the tiers and one that is none
DifficultyInputs == {"medium", "hard", "expert"}

\* the bodies of /start_game: no difficulty given (the easy tier), or one
StartBodies == {EmptyDict} \cup {[difficulty |-> d] : d \in DifficultyInputs}

\* the answers a client sends to a question whose answer is a
AnswerInputs(a) ==
    {JsonInt(a), JsonInt(a + 1), JsonStr(<<" ">> \o IntToStr(a)),
     JsonStr(<<"a", "b", "c">>), JsonFloat(2 * a + 1), JsonNull, JsonInf}

\* the bodies of /submit_answer: no answer given, or one
SubmitBodies ==
    LET a == IF HasQuestion(session) THEN session["current_question"].answer
             ELSE 0
    IN  {EmptyDict} \cup {[answer |-> x] : x \in AnswerInputs(a)}

Init ==
    /\ session = EmptyDict
    /\ db = <<>>
    /\ now = 0
    /\ request = Request("", EmptyDict)
    /\ response = EmptyDict
    /\ debug \in BOOLEAN
    /\ history = [starts |-> 0, stored |-> 0]

\* the history after a step: a /start_game request is counted and opens
\* a new count of the rows stored; a row stored is counted
Recorded ==
    history' = IF request'.route = "/start_game"
               THEN [starts |-> history.starts + 1, stored |-> 0]
               ELSE [history EXCEPT !.stored = @ + Len(db') - Len(db)]

Next ==
    \/ \E data \in StartBodies, dt \in Delays :
          start_game(data, dt) /\ Recorded /\ UNCHANGED debug
    \/ \E data \in SubmitBodies, dt \in Delays :
          submit_answer(data, dt) /\ Recorded /\ UNCHANGED debug
    \/ \E dt \in Delays :
          end_game(dt) /\ Recorded /\ UNCHANGED debug
    \/ get_leaderboard /\ Recorded /\ UNCHANGED debug

Spec == Init /\ [][Next]_vars

----------------------------------------------------------------------------
(* The requests of a player who can answer at once *)

\* the first question of a first game, in the easy tier, is answered right
\* in the tick in which it was asked: no time has elapsed
PromptAnswer ==
    /\ history.starts = 1
    /\ GameActive(session)
    /\ HasQuestion(session)
    /\ session["difficulty"] = "easy"
    /\ session["total_questions"] = 0
    /\ submit_answer([answer |-> JsonInt(session["current_question"].answer)], 0)
    /\ Recorded
    /\ UNCHANGED debug

PromptNext == Next \/ PromptAnswer

PromptSpec == Init /\ [][PromptNext]_vars

----------------------------------------------------------------------------
(* The question generator alone *)

\* a call generate_question(difficulty) that has not returned yet
GenCall(difficulty) == Request("generate_question", [difficulty |-> difficulty])

\* a difficulty of DIFFICULTY_SETTINGS is named, nothing is generated yet
GenInit ==
    /\ session = EmptyDict
    /\ db = <<>>
    /\ now = 0
    /\ request \in {GenCall(difficulty) : difficulty \in DOMAIN DIFFICULTY_SETTINGS}
    /\ response = EmptyDict
    /\ debug = TRUE
    /\ history = [starts |-> 0, stored |-> 0]

\* generate_question(difficulty) runs: random.choice picks an operation,
\* random.randint draws the operands, or raises ValueError when its range
\* is empty; the question is returned
Generate ==
    /\ request.route = "generate_question"
    /\ response = EmptyDict
    /\ LET settings == DIFFICULTY_SETTINGS[request.json.difficulty]
       IN  \E i \in DOMAIN settings.operations :
              LET drawn == QuestionsOf(settings.operations[i], settings, GenSpan)
              IN  IF drawn = {}
                  THEN response' = PyRaise("ValueError")
                  ELSE \E question_data \in drawn : response' = question_data
    /\ UNCHANGED <<session, db, now, request, debug, history>>

GenNext == Generate

GenSpec == GenInit /\ [][GenNext]_vars

----------------------------------------------------------------------------
(* The leaderboard of a table that holds rows when the server starts *)

\* the row end_game stores for an easy game of score / 10 right answers,
\* none of them early, ended when the clock read t
BoardRow(score, t) ==
    LET s == [difficulty |-> "easy", score |-> score,
              total_questions |-> score \div 10,
              correct_answers |-> score \div 10]
    IN  GameResult(s, Accuracy(s.correct_answers, s.total_questions),
                   Float(t, TicksPerSecond)) @@ [created_at |-> t]

\* the tables of MaxBoardRows rows or fewer, each row that of a game of
\* one right answer or of two
BoardTables ==
    UNION {[1..n -> {BoardRow(10, MaxTime), BoardRow(20, MaxTime)}] :
              n \in 0..MaxBoardRows}

BoardInit ==
    /\ session = EmptyDict
    /\ db \in BoardTables
    /\ now = 0
    /\ request = Request("", EmptyDict)
    /\ response = EmptyDict
    /\ debug = TRUE
    /\ history = [starts |-> 0, stored |-> 0]

BoardNext == get_leaderboard /\ Recorded /\ UNCHANGED debug

BoardSpec == BoardInit /\ [][BoardNext]_vars

----------------------------------------------------------------------------
(* What the properties observe of a state and of a step *)

Tiers == {"easy", "medium", "hard"}

\* the session is that of a game in progress
ObsActive(s) == "game_active" \in DOMAIN s /\ s["game_active"] = TRUE

\* a question awaits its answer
ObsPending(s) == "current_question" \in DOMAIN s

\* the step handles a request to route
ObsStep(route) == request'.route = route /\ vars' # vars

\* the tier a /start_game body asks for
ObsTier(body) ==
    IF "difficulty" \in DOMAIN body THEN body.difficulty ELSE "easy"

\* the answer of a /submit_answer body is the integer a
ObsAnswerIs(body, a) ==
    /\ "answer" \in DOMAIN body
    /\ PyInt(body.answer).raises = ""
    /\ PyInt(body.answer).value = a

\* the answer of a /submit_answer body is no integer
ObsUnparseable(body) ==
    "answer" \notin DOMAIN body \/ PyInt(body.answer).raises # ""

\* the response is a structured failure: a success flag and a message
ObsFailure(r) ==
    /\ DOMAIN r = {"success", "error"}
    /\ r.success = FALSE

\* the response is a structured success
ObsSuccess(r) == "success" \in DOMAIN r /\ r.success = TRUE

\* the four counters and the tier of a session are those of another
ObsSameGame(s, t) ==
    /\ t["difficulty"] = s["difficulty"]
    /\ t["score"] = s["score"]
    /\ t["total_questions"] = s["total_questions"]
    /\ t["correct_answers"] = s["correct_answers"]

\* a submit_answer step on a game in progress with a question pending
ObsSubmit ==
    ObsStep("/submit_answer") /\ ObsActive(session) /\ ObsPending(session)

\* the answer submitted in the step is the right one
ObsRight == ObsAnswerIs(request'.json, session["current_question"].answer)

\* ticks from the start of the pending question to the step's clock reading
ObsElapsed == now' - session["question_start_time"]

\* points the step adds to the score
ObsGain == session'["score"] - session["score"]

----------------------------------------------------------------------------
(* Properties *)

\* C1: every submit_answer on an active session with a pending question
\* adds exactly 1 to total_questions; a right answer also adds 1 to
\* correct_answers and at least 10 to the score; a wrong answer leaves
\* score and correct_answers as they were.
C1_SubmitCounts ==
    [][ObsSubmit =>
          /\ session'["total_questions"] = session["total_questions"] + 1
          /\ IF ObsRight
             THEN /\ session'["correct_answers"] = session["correct_answers"] + 1
                  /\ ObsGain >= 10
             ELSE /\ session'["correct_answers"] = session["correct_answers"]
                  /\ ObsGain = 0]_vars

\* C2: the bonus is added exactly when the answer is right and less than
\* half the question's time limit has elapsed; it is then
\* max(1, floor(10 - elapsed)); at half the limit or later a right answer
\* earns exactly 10.
C2_TimeBonus ==
    [][ObsSubmit =>
          LET limit == session["current_question"].time_limit
              fast == 2 * ObsElapsed < limit * TicksPerSecond
              floor == (10 * TicksPerSecond - ObsElapsed) \div TicksPerSecond
          IN  ObsGain = IF ~ObsRight THEN 0
                        ELSE IF fast THEN 10 + Max(1, floor)
                        ELSE 10]_vars

\* the first answer of a hard game, right and given at exactly half the
\* time limit (7.5 s of 15 s), earned 10 points and no bonus
C2_Witness ==
    /\ request.route = "/submit_answer"
    /\ ObsSuccess(response)
    /\ response.is_correct
    /\ session["difficulty"] = "hard"
    /\ session["total_questions"] = 1
    /\ session["score"] = 10
    /\ 2 * (session["question_start_time"] - session["start_time"])
         = 15 * TicksPerSecond

\* C3: submit_answer and end_game on a session that is not active (never
\* started, or ended) answer the structured failure 'Nenhum jogo ativo' and
\* change neither the session nor the game_result table.
C3_NoActiveGame ==
    [][((ObsStep("/submit_answer") \/ ObsStep("/end_game"))
            /\ ~ObsActive(session)) =>
          /\ ObsFailure(response')
          /\ response'.error = "Nenhum jogo ativo"
          /\ session' = session
          /\ db' = db]_vars

\* an ended game, its result stored, refused an answer
C3_Witness ==
    /\ request.route = "/submit_answer"
    /\ ObsFailure(response)
    /\ "game_active" \in DOMAIN session
    /\ session["game_active"] = FALSE
    /\ Len(db) = 1

\* C4: start_game with a valid tier, from any session state, leaves an
\* active session with score, total_questions and correct_answers 0, the
\* tier asked for and a question generated for that tier as the pending
\* one, its clock started at the request; no row is written for the game
\* it discards.
C4_StartResets ==
    [][(ObsStep("/start_game") /\ ObsTier(request'.json) \in Tiers) =>
          /\ ObsActive(session')
          /\ session'["score"] = 0
          /\ session'["total_questions"] = 0
          /\ session'["correct_answers"] = 0
          /\ session'["difficulty"] = ObsTier(request'.json)
          /\ session'["current_question"]
                \in generate_question(ObsTier(request'.json), DrawSpan)
          /\ session'["current_question"].time_limit
                = DIFFICULTY_SETTINGS[ObsTier(request'.json)].time_limit
          /\ response'.question = session'["current_question"].question
          /\ session'["start_time"] = now'
          /\ session'["question_start_time"] = now'
          /\ db' = db]_vars

\* a game was started after one that had scored and was ended
C4_Witness ==
    /\ request.route = "/start_game"
    /\ ObsSuccess(response)
    /\ ObsActive(session)
    /\ Len(db) = 1
    /\ db[1].score > 0

\* C5: start_game with a difficulty that is none of easy, medium, hard
\* answers a structured failure (success flag and message).
C5_InvalidDifficulty ==
    [][(ObsStep("/start_game") /\ ObsTier(request'.json) \notin Tiers) =>
          ObsFailure(response')]_vars

C7_Unparseable ==
    [][(ObsSubmit /\ ObsUnparseable(request'.json)) =>
          /\ ObsSuccess(response')
          /\ response'.is_correct = FALSE
          /\ session'["score"] = session["score"]
          /\ session'["correct_answers"] = session["correct_answers"]
          /\ session'["total_questions"] = session["total_questions"] + 1
          /\ session'["question_start_time"] = now']_vars

\* C8: every successful submit_answer, the answer right or wrong, stores
\* as pending a question generated for the session's tier, which stays the
\* same, answers with that question, and starts the question's clock at
\* the time of the submission.
C8_Advance ==
    [][(ObsStep("/submit_answer") /\ ObsSuccess(response')) =>
          /\ session'["difficulty"] = session["difficulty"]
          /\ session'["current_question"]
                \in generate_question(session["difficulty"], DrawSpan)
          /\ response'.next_question = session'["current_question"].question
          /\ response'.time_limit = session'["current_question"].time_limit
          /\ now' >= now
          /\ session'["question_start_time"] = now']_vars

\* a second answer was scored: its time was counted from the first one
C8_Witness ==
    /\ request.route = "/submit_answer"
    /\ ObsSuccess(response)
    /\ session["total_questions"] = 2
    /\ session["question_start_time"] > session["start_time"]
    /\ session["question_start_time"] = now

\* the three counters of a session are natural numbers
ObsCounters(s) ==
    /\ s["score"] \in Nat
    /\ s["total_questions"] \in Nat
    /\ s["correct_answers"] \in Nat

\* C9: while a game is active its score, total_questions and
\* correct_answers are non-negative integers, and no submit_answer step
\* decreases any of them.
C9_Monotonic ==
    /\ [](ObsActive(session) => ObsCounters(session))
    /\ [][(ObsStep("/submit_answer") /\ ObsActive(session)) =>
             /\ ObsActive(session')
             /\ session'["score"] >= session["score"]
             /\ session'["total_questions"] >= session["total_questions"]
             /\ session'["correct_answers"] >= session["correct_answers"]]_vars

\* a game is active after a right answer and then a wrong one
C9_Witness ==
    /\ request.route = "/submit_answer"
    /\ ObsActive(session)
    /\ session["total_questions"] = 2
    /\ session["correct_answers"] = 1
    /\ ~response.is_correct

\* the accuracy of a row is correct_answers / total_questions * 100, or 0
\* for no question, and lies in 0..100
ObsAccuracy(row) ==
    /\ row.accuracy.den > 0
    /\ IF row.total_questions > 0
       THEN row.accuracy.num * row.total_questions
               = row.correct_answers * 100 * row.accuracy.den
       ELSE row.accuracy.num = 0
    /\ 0 <= row.accuracy.num
    /\ row.accuracy.num <= 100 * row.accuracy.den

\* C10: the accuracy end_game stores is correct_answers / total_questions
\* * 100 for total_questions > 0 and 0 for total_questions = 0, always in
\* 0..100; ending a game with no answer stores a row and succeeds.
C10_Accuracy ==
    /\ [](\A i \in 1..Len(db) : ObsAccuracy(db[i]))
    /\ [][(ObsStep("/end_game") /\ ObsActive(session)
               /\ session["total_questions"] = 0) =>
             /\ ObsSuccess(response')
             /\ Len(db') = Len(db) + 1
             /\ db'[Len(db')].accuracy.num = 0]_vars

\* a game of one right answer in two was stored, its accuracy 50
C10_Witness ==
    /\ Len(db) = 1
    /\ db[1].total_questions = 2
    /\ db[1].correct_answers = 1
    /\ db[1].accuracy.num = 50 * db[1].accuracy.den

----------------------------------------------------------------------------
(* What the properties observe of a question *)

\* the value is a question: its text, its answer and its time limit
ObsIsQuestion(r) == DOMAIN r = {"question", "answer", "time_limit"}

\* the position of the first space of a text
ObsSpace(text) ==
    CHOOSE i \in 1..Len(text) :
        text[i] = " " /\ \A j \in 1..(i - 1) : text[j] # " "

\* the text before the operator sign, and the text after it
ObsLeft(text) == SubSeq(text, 1, ObsSpace(text) - 1)
ObsRightSide(text) == SubSeq(text, ObsSpace(text) + 3, Len(text))

\* a text of decimal digits, one at least
ObsNumeral(t) ==
    /\ Len(t) > 0
    /\ \A i \in 1..Len(t) :
          t[i] \in {"0", "1", "2", "3", "4", "5", "6", "7", "8", "9"}

\* the text displays "a sign b": two numerals around a sign set off by
\* single spaces
ObsExpression(text) ==
    /\ \E i \in 1..Len(text) : text[i] = " "
    /\ Len(text) >= ObsSpace(text) + 3
    /\ text[ObsSpace(text) + 2] = " "
    /\ ObsNumeral(ObsLeft(text))
    /\ ObsNumeral(ObsRightSide(text))

\* the sign and the two operands displayed
ObsSign(text) == text[ObsSpace(text) + 1]
ObsOperand1(text) == DigitsValue(ObsLeft(text))
ObsOperand2(text) == DigitsValue(ObsRightSide(text))

ObsMaxNumber(tier) ==
    CASE tier = "easy" -> 10
      [] tier = "medium" -> 50
      [] tier = "hard" -> 100

\* C13: the generator never draws from an empty range, and the operands
\* of every question of a tier with the upper bound max lie in their
\* ranges: both operands of an addition in 1..max; of a subtraction the
\* first in 1..max and the second in 1..first; both operands of a
\* multiplication in 1..min(max / 5, 12); of a division the answer in
\* 1..min(max / 5, 12) and the divisor in 2..min(max / 10, 10), the
\* divisions of max being integer divisions.
C13_OperandRanges ==
    /\ response = EmptyDict \/ ObsIsQuestion(response)
    /\ ObsIsQuestion(response) =>
          LET text == response.question
              a == ObsOperand1(text)
              b == ObsOperand2(text)
              max == ObsMaxNumber(request.json.difficulty)
              small == IF max \div 5 < 12 THEN max \div 5 ELSE 12
              most == IF max \div 10 < 10 THEN max \div 10 ELSE 10
          IN  /\ ObsExpression(text)
              /\ CASE ObsSign(text) = "+" -> a \in 1..max /\ b \in 1..max
                   [] ObsSign(text) = "-" -> a \in 1..max /\ b \in 1..a
                   [] ObsSign(text) = "×" -> a \in 1..small /\ b \in 1..small
                   [] ObsSign(text) = "÷" ->
                         /\ response.answer \in 1..small
                         /\ b \in 2..most
                   [] OTHER -> FALSE

\* the largest multiplication of the medium tier, 10 * 10, was generated
C13_Witness ==
    /\ request.json.difficulty = "medium"
    /\ ObsIsQuestion(response)
    /\ response.question = <<"1", "0", " ", "×", " ", "1", "0">>

\* the operator signs and the time limit of a tier
ObsSigns(tier) ==
    CASE tier = "easy" -> {"+", "-"}
      [] tier = "medium" -> {"+", "-", "×"}
      [] tier = "hard" -> {"+", "-", "×", "÷"}

ObsLimit(tier) ==
    CASE tier = "easy" -> 30
      [] tier = "medium" -> 20
      [] tier = "hard" -> 15

\* the question is one of the tier: its sign and its time limit
ObsConforms(question_data, tier) ==
    /\ ObsIsQuestion(question_data)
    /\ ObsExpression(question_data.question)
    /\ ObsSign(question_data.question) \in ObsSigns(tier)
    /\ question_data.time_limit = ObsLimit(tier)

\* C12: every question start_game or submit_answer stores in the session
\* is one of the session's tier: its operator is among the tier's (easy
\* + -, medium + - *, hard + - * /) and its time limit is the tier's
\* (30, 20, 15); and the pending question of a session whose difficulty
\* is a tier is always one of that tier.
C12_TierQuestions ==
    /\ []((ObsPending(session) /\ session["difficulty"] \in Tiers) =>
             ObsConforms(session["current_question"], session["difficulty"]))
    /\ [][((ObsStep("/start_game") \/ ObsStep("/submit_answer"))
               /\ ObsSuccess(response')) =>
             /\ ObsPending(session')
             /\ session'["difficulty"] \in Tiers
             /\ ObsConforms(session'["current_question"],
                            session'["difficulty"])]_vars

\* submit_answer stored a division as the next question of a hard game
C12_Witness ==
    /\ request.route = "/submit_answer"
    /\ ObsSuccess(response)
    /\ session["difficulty"] = "hard"
    /\ ObsSign(session["current_question"].question) = "÷"
    /\ session["current_question"].time_limit = 15

\* the pending question's time limit has run out when the step's answer
\* arrives
ObsLate == ObsElapsed > session["current_question"].time_limit * TicksPerSecond

\* C14: the time limit is not enforced: a right answer that arrives after
\* the pending question's limit has run out is not rejected; it counts as
\* right (correct_answers + 1, total_questions + 1), earns exactly 10
\* points, and the game goes on with a next question, its clock started.
C14_LateAnswer ==
    [][(ObsSubmit /\ ObsRight /\ ObsLate) =>
          /\ ObsSuccess(response')
          /\ response'.is_correct
          /\ ObsGain = 10
          /\ session'["correct_answers"] = session["correct_answers"] + 1
          /\ session'["total_questions"] = session["total_questions"] + 1
          /\ ObsActive(session')
          /\ ObsPending(session')
          /\ response'.next_question = session'["current_question"].question
          /\ session'["question_start_time"] = now']_vars

\* how many elements of a sequence of rows or of entries have a score
\* above s, and how many have the score s and the difficulty d
ObsAbove(seq, s) == Cardinality({i \in DOMAIN seq : seq[i].score > s})
ObsAlike(seq, s, d) ==
    Cardinality({i \in DOMAIN seq : seq[i].score = s /\ seq[i].difficulty = d})

\* C15: get_leaderboard returns stored results, 10 at most (all of them
\* when 10 or fewer are stored), in descending order of score; no result
\* left out has a higher score than one returned; when the result stored
\* last has a score above every other, it comes first; and the request
\* changes neither the table nor the session.
C15_Leaderboard ==
    [][ObsStep("/get_leaderboard") =>
          LET board == response'.leaderboard
          IN  /\ Len(board) = IF Len(db) < 10 THEN Len(db) ELSE 10
              /\ \A i \in DOMAIN board :
                    ObsAlike(board, board[i].score, board[i].difficulty)
                       <= ObsAlike(db, board[i].score, board[i].difficulty)
              /\ \A i, j \in DOMAIN board :
                    i < j => board[i].score >= board[j].score
              /\ \A i \in DOMAIN board :
                    ObsAbove(board, board[i].score) = ObsAbove(db, board[i].score)
              /\ (Len(db) > 0
                     /\ \A i \in 1..(Len(db) - 1) : db[i].score < db[Len(db)].score) =>
                    /\ board[1].score = db[Len(db)].score
                    /\ board[1].difficulty = db[Len(db)].difficulty
              /\ db' = db
              /\ session' = session]_vars

\* of eleven stored results the last, the only one of score 20, came
\* first of the ten returned
C15_Witness ==
    /\ request.route = "/get_leaderboard"
    /\ Len(db) = 11
    /\ db[11].score = 20
    /\ \A i \in 1..10 : db[i].score = 10
    /\ Len(response.leaderboard) = 10
    /\ response.leaderboard[1].score = 20
    /\ response.leaderboard[10].score = 10

\* C16: the game_result table only grows: whatever the request (start,
\* submit, end, leaderboard), every row stored stays as it was written,
\* and the one step that changes the table is an end_game that succeeds
\* on an active session, which adds one row after the others.
C16_AppendOnly ==
    [][\/ db' = db
       \/ /\ ObsStep("/end_game")
          /\ ObsActive(session)
          /\ ObsSuccess(response')
          /\ Len(db') = Len(db) + 1
          /\ SubSeq(db', 1, Len(db)) = db]_vars

\* two results are stored and the leaderboard was read: both are on it
C16_Witness ==
    /\ request.route = "/get_leaderboard"
    /\ Len(db) = 2
    /\ Len(response.leaderboard) = 2
    /\ db[1].created_at < db[2].created_at

\* C17: in every state the requests lead to, an active session has a
\* pending question, and no submit_answer is answered 'Nenhuma pergunta
\* atual'.
C17_AlwaysPending ==
    /\ [](ObsActive(session) => ObsPending(session))
    /\ [][ObsStep("/submit_answer") =>
             ~(ObsFailure(response')
                  /\ response'.error = "Nenhuma pergunta atual")]_vars

\* what an answer does to the three counters of a session, from the
\* pending question, the body of the request and the ticks elapsed, and
\* from nothing else
ObsDelta(question_data, body, elapsed) ==
    LET parsed == IF "answer" \in DOMAIN body THEN PyInt(body.answer)
                  ELSE [raises |-> "TypeError", value |-> 0]
        right == parsed.raises = "" /\ parsed.value = question_data.answer
        fast == 2 * elapsed < question_data.time_limit * TicksPerSecond
        floor == (10 * TicksPerSecond - elapsed) \div TicksPerSecond
    IN  IF parsed.raises \notin {"", "TypeError", "ValueError"}
        THEN [score |-> 0, total_questions |-> 0, correct_answers |-> 0]
        ELSE [score |-> IF ~right THEN 0
                        ELSE IF fast THEN 10 + (IF floor > 1 THEN floor ELSE 1)
                        ELSE 10,
              total_questions |-> 1,
              correct_answers |-> IF right THEN 1 ELSE 0]

\* C18: scoring is deterministic: what a submit_answer adds to score,
\* total_questions and correct_answers is a function of the session's
\* pending question, the answer sent and the time elapsed, so that two
\* sessions alike in these change alike, whatever the game_result table
\* holds and whatever was requested before.
C18_Deterministic ==
    [][ObsSubmit =>
          LET delta == ObsDelta(session["current_question"], request'.json,
                                ObsElapsed)
          IN  /\ session'["score"] = session["score"] + delta.score
              /\ session'["total_questions"]
                    = session["total_questions"] + delta.total_questions
              /\ session'["correct_answers"]
                    = session["correct_answers"] + delta.correct_answers]_vars

\* a right answer given after 6 s earned 14 points in a game started
\* when the table held the result of another
C18_Witness ==
    /\ request.route = "/submit_answer"
    /\ ObsSuccess(response)
    /\ response.is_correct
    /\ Len(db) = 1
    /\ session["start_time"] > db[1].created_at
    /\ session["total_questions"] = 1
    /\ session["score"] = 14

\* the counters of a session that has them are within the bounds
ObsBounds(s) ==
    "score" \in DOMAIN s =>
       /\ s["correct_answers"] <= s["total_questions"]
       /\ 10 * s["correct_answers"] <= s["score"]
       /\ s["score"] <= 20 * s["correct_answers"]

\* C19: in every state correct_answers <= total_questions and
\* 10 * correct_answers <= score <= 20 * correct_answers; no time elapsed
\* is negative, and every submit_answer adds to the score 0, or 10 for a
\* right answer without the bonus, or 11 to 20 for one with it.
C19_ScoreBounds ==
    /\ [](ObsBounds(session))
    /\ [][(ObsStep("/submit_answer") /\ "score" \in DOMAIN session) =>
             IF ObsSubmit /\ ObsRight
             THEN /\ ObsElapsed >= 0
                  /\ IF 2 * ObsElapsed
                          < session["current_question"].time_limit * TicksPerSecond
                     THEN ObsGain \in 11..20
                     ELSE ObsGain = 10
             ELSE ObsGain = 0]_vars

\* a right answer given at once earned 20 points, 10 of them the bonus
C19_Witness ==
    /\ request.route = "/submit_answer"
    /\ ObsSuccess(response)
    /\ session["correct_answers"] = 1
    /\ session["total_questions"] = 1
    /\ session["score"] = 20
    /\ session["question_start_time"] = session["start_time"]

\* C20: a game started is stored once at most: between a /start_game
\* request and the next no more than one row is added to the table; once
\* a row is added, every end_game and every submit_answer is answered
\* 'Nenhum jogo ativo' and adds none, until the next /start_game; and the
\* table never holds more rows than /start_game requests were received.
C20_PersistedOnce ==
    /\ [](history.stored <= 1 /\ Len(db) <= history.starts)
    /\ [][(history.stored >= 1
               /\ (ObsStep("/end_game") \/ ObsStep("/submit_answer"))) =>
             /\ ObsFailure(response')
             /\ response'.error = "Nenhum jogo ativo"
             /\ db' = db
             /\ history'.stored = history.stored]_vars

\* the first game was ended and stored, and a second end_game was refused
C20_Witness ==
    /\ request.route = "/end_game"
    /\ ObsFailure(response)
    /\ history.starts = 1
    /\ history.stored = 1
    /\ Len(db) = 1

====
